---- MODULE Spec2Model ----
(***************************************************************************)
(* Model of cayzn_test_max.py: a Service (legs, ODs, passenger manifest,   *)
(* itinerary reconstruction, OD.legs, Leg.passengers, OD.history) and the  *)
(* maximum-weight monotone path finder (max_path_finder / path_finder).    *)
(*                                                                         *)
(* Objects are modelled by their fields.  A Station is an identity, drawn  *)
(* from 1..NumStations.  A Leg is [origin, destination]; inside one        *)
(* service built over distinct stations two Leg objects never share both   *)
(* endpoints, so field equality coincides with object identity.  A         *)
(* Passenger carries an id that stands for its object identity (the class  *)
(* defines neither __eq__ nor __hash__).  Python lists are sequences       *)
(* (1-based here, 0-based in the source); dicts are sequences of           *)
(* <<key, value>> pairs in insertion order.  Prices are integers.          *)
(***************************************************************************)
EXTENDS Integers, Sequences, FiniteSets

VARIABLES
    pc,        \* "new": Service constructed; "ready": legs and ods set;
               \* "raised": the last call raised and the script ended
    legs,      \* Service.legs
    ods,       \* Service.ods, each with its passengers list
    created,   \* the Passenger objects constructed so far
    accepted,  \* the manifests of the calls that returned, concatenated
    call,      \* the last operation and its arguments
    ret,       \* what the last operation returned
    err,       \* the exception the last operation raised, or "none"
    route,     \* the station list the legs and ods were built from
    grid       \* the matrix handed to max_path_finder

vars == <<pc, legs, ods, created, accepted, call, ret, err, route, grid>>

----------------------------------------------------------------------------
(* Bounds *)

\* the stations that exist; an itinerary visits 2 to NumStations of them
NumStations == 4
\* the longest itinerary of the services that manifests are loaded into
MaxStops == 3
\* the manifest entries loaded into one service, and into one call
MaxPassengers == 3
MaxManifest == 2
\* the bookings of the OD whose history is read, their days and prices
MaxHistory == 4
MaxDaysBefore == 3
MaxPrice == 2
\* the number of cells of the matrix (rows times columns), and their values
MaxCells == 9
CellValues == {0, 1, 2}

Stations == 1..NumStations

----------------------------------------------------------------------------
(* Generic helpers for lists and insertion-ordered dicts *)

Range(s) == {s[i] : i \in 1..Len(s)}

Distinct(s) == \A i, j \in 1..Len(s) : i # j => s[i] # s[j]

\* list.index(x): the first 1-based position of x in s, 0 when absent
\* (where Python raises ValueError)
IndexOf(s, x) ==
    IF \E i \in 1..Len(s) : s[i] = x
    THEN CHOOSE i \in 1..Len(s) : s[i] = x /\ \A j \in 1..(i - 1) : s[j] # x
    ELSE 0

\* s[a:b] with 0-based a, b, for 0 <= a, b (Python clamps to the length)
Slice(s, a, b) ==
    LET hi == IF b > Len(s) THEN Len(s) ELSE b
    IN  IF a >= hi THEN <<>> ELSE [i \in 1..(hi - a) |-> s[a + i]]

DictHas(d, k) == \E i \in 1..Len(d) : d[i][1] = k

DictGet(d, k) == d[CHOOSE i \in 1..Len(d) : d[i][1] = k][2]

\* d[k] = v: a new key goes last, an existing key keeps its position
DictSet(d, k, v) ==
    IF DictHas(d, k)
    THEN [i \in 1..Len(d) |-> IF d[i][1] = k THEN <<k, v>> ELSE d[i]]
    ELSE Append(d, <<k, v>>)

----------------------------------------------------------------------------
(* Constructors *)

Leg(origin, destination) == [origin |-> origin, destination |-> destination]

OD(origin, destination) ==
    [origin |-> origin, destination |-> destination, passengers |-> <<>>]

Passenger(id, origin, destination, sale_day_x, price) ==
    [id |-> id, origin |-> origin, destination |-> destination,
     sale_day_x |-> sale_day_x, price |-> price]

----------------------------------------------------------------------------
(* Service.load_legs, Service.load_ods *)

\* zip(itinerary, itinerary[1:]): one leg per pair of consecutive stations
LoadLegs(itinerary) ==
    [i \in 1..(Len(itinerary) - 1) |-> Leg(itinerary[i], itinerary[i + 1])]

\* itertools.combinations(itinerary, 2): positions (i, j), i < j, in
\* lexicographic order
RECURSIVE CombinationsFrom(_, _, _)
CombinationsFrom(s, i, j) ==
    IF i >= Len(s) THEN <<>>
    ELSE IF j > Len(s) THEN CombinationsFrom(s, i + 1, i + 2)
    ELSE <<(<<s[i], s[j]>>)>> \o CombinationsFrom(s, i, j + 1)

Combinations2(s) == CombinationsFrom(s, 1, 2)

\* itertools.permutations in the place of itertools.combinations: every
\* ordered pair of two positions
LoadOdsPermutations(itinerary) ==
    LET n == Len(itinerary)
        First(x) == ((x - 1) \div (n - 1)) + 1
        Rest(x) == ((x - 1) % (n - 1)) + 1
        Second(x) == IF Rest(x) < First(x) THEN Rest(x) ELSE Rest(x) + 1
    IN  [x \in 1..(n * (n - 1)) |->
            OD(itinerary[First(x)], itinerary[Second(x)])]

LoadOds(itinerary) ==
    LET c == Combinations2(itinerary)
    IN  [i \in 1..Len(c) |-> OD(c[i][1], c[i][2])]

----------------------------------------------------------------------------
(* Service._calculate_itinerary *)

RECURSIVE OccurrencesUpTo(_, _)
OccurrencesUpTo(ls, n) ==
    IF n = 0 THEN [s \in Stations |-> 0]
    ELSE LET o1 == OccurrencesUpTo(ls, n - 1)
             o2 == [o1 EXCEPT ![ls[n].origin] = @ + 1]
         IN  [o2 EXCEPT ![ls[n].destination] = @ + 1]

RECURSIVE ConnectionsUpTo(_, _)
ConnectionsUpTo(ls, n) ==
    IF n = 0 THEN <<>>
    ELSE DictSet(ConnectionsUpTo(ls, n - 1), ls[n].origin, ls[n].destination)

\* _calculate_station_occurrences_and_connections
StationOccurrences(ls) == OccurrencesUpTo(ls, Len(ls))

StationConnections(ls) == ConnectionsUpTo(ls, Len(ls))

\* the first origin of the dict, whatever its occurrence count
FindDepartureFirstKey(occ, conn) == IF Len(conn) > 0 THEN 1 ELSE 0

\* next(origin for origin, _ in items if occ[origin] == 1): the position of
\* the first such item, 0 when there is none (StopIteration)
FindDeparture(occ, conn) ==
    IF \E i \in 1..Len(conn) : occ[conn[i][1]] = 1
    THEN CHOOSE i \in 1..Len(conn) :
            /\ occ[conn[i][1]] = 1
            /\ \A j \in 1..(i - 1) : occ[conn[j][1]] # 1
    ELSE 0

\* next(destination for _, destination in items if occ[destination] == 1)
FindDestination(occ, conn) ==
    IF \E i \in 1..Len(conn) : occ[conn[i][2]] = 1
    THEN CHOOSE i \in 1..Len(conn) :
            /\ occ[conn[i][2]] = 1
            /\ \A j \in 1..(i - 1) : occ[conn[j][2]] # 1
    ELSE 0

\* the while True loop.  A station met twice means the loop never ends
\* (the walk is deterministic); a station without connection is a KeyError.
RECURSIVE Walk(_, _, _, _)
Walk(conn, current, final, acc) ==
    IF current \in Range(acc) THEN [exc |-> "NonTermination", val |-> acc]
    ELSE LET acc2 == Append(acc, current)
         IN  IF current = final THEN [exc |-> "none", val |-> acc2]
             ELSE IF ~DictHas(conn, current)
             THEN [exc |-> "KeyError", val |-> acc2]
             ELSE Walk(conn, DictGet(conn, current), final, acc2)

CalculateItinerary(ls) ==
    LET occ == StationOccurrences(ls)
        conn == StationConnections(ls)
        dep == FindDeparture(occ, conn)
        dst == FindDestination(occ, conn)
    IN  IF dep = 0 \/ dst = 0 THEN [exc |-> "StopIteration", val |-> <<>>]
        ELSE Walk(conn, conn[dep][1], conn[dst][2], <<>>)

----------------------------------------------------------------------------
(* OD.legs *)

\* itinerary.index raises ValueError for a station that is not there
OdLegs(ls, od) ==
    LET it == CalculateItinerary(ls)
        origin_index == IndexOf(it.val, od.origin)
        destination_index == IndexOf(it.val, od.destination)
    IN  IF it.exc # "none" THEN [exc |-> it.exc, val |-> <<>>]
        ELSE IF origin_index = 0 \/ destination_index = 0
        THEN [exc |-> "ValueError", val |-> <<>>]
        ELSE [exc |-> "none",
              val |-> Slice(ls, origin_index - 1, destination_index - 1)]

----------------------------------------------------------------------------
(* Leg.passengers *)

\* only the ODs that start where the leg starts
LegPassengersSameOrigin(ls, os, leg) ==
    LET hit == {k \in 1..Len(os) : os[k].origin = leg.origin}
    IN  [exc |-> "none",
         val |-> UNION {Range(os[k].passengers) : k \in hit}]

\* the set comprehension: every passenger of every OD whose legs hold the
\* leg.  An exception of od.legs propagates.
LegPassengers(ls, os, leg) ==
    LET bad == {k \in 1..Len(os) : OdLegs(ls, os[k]).exc # "none"}
        hit == {k \in 1..Len(os) : leg \in Range(OdLegs(ls, os[k]).val)}
    IN  IF bad # {}
        THEN [exc |-> OdLegs(ls, os[CHOOSE k \in bad : \A j \in bad : k <= j]).exc,
              val |-> {}]
        ELSE [exc |-> "none",
              val |-> UNION {Range(os[k].passengers) : k \in hit}]

\* list(set): the elements of the set, each once, in an order Python does
\* not fix
ListsOfSet(S) ==
    {f \in [1..Cardinality(S) -> S] : \A e \in S : \E i \in DOMAIN f : f[i] = e}

----------------------------------------------------------------------------
(* OD.history *)

\* history_map after the first n passengers: day -> <<bookings, revenue>>
RECURSIVE HistoryMapUpTo(_, _)
HistoryMapUpTo(ps, n) ==
    IF n = 0 THEN <<>>
    ELSE LET m == HistoryMapUpTo(ps, n - 1)
             day == ps[n].sale_day_x
             old == IF DictHas(m, day) THEN DictGet(m, day) ELSE <<0, 0>>
         IN  DictSet(m, day, <<old[1] + 1, old[2] + ps[n].price>>)

\* the rows [sale_day_x, bookings, revenue], in dict order
HistoryRows(m) == [i \in 1..Len(m) |-> <<m[i][1], m[i][2][1], m[i][2][2]>>]

\* Python's order on lists of numbers
RowLess(a, b) ==
    \/ a[1] < b[1]
    \/ a[1] = b[1] /\ a[2] < b[2]
    \/ a[1] = b[1] /\ a[2] = b[2] /\ a[3] < b[3]

RECURSIVE InsertRow(_, _)
InsertRow(sortedRows, r) ==
    IF sortedRows = <<>> THEN <<r>>
    ELSE IF RowLess(r, Head(sortedRows)) THEN <<r>> \o sortedRows
    ELSE <<Head(sortedRows)>> \o InsertRow(Tail(sortedRows), r)

RECURSIVE SortedUpTo(_, _)
SortedUpTo(rows, n) ==
    IF n = 0 THEN <<>> ELSE InsertRow(SortedUpTo(rows, n - 1), rows[n])

\* sorted(...)
Sorted(rows) == SortedUpTo(rows, Len(rows))

\* the for loop over range(1, len(history_list)), up to index n (1-based)
RECURSIVE CumulateUpTo(_, _)
CumulateUpTo(rows, n) ==
    IF n <= 1 THEN rows
    ELSE LET prev == CumulateUpTo(rows, n - 1)
         IN  [prev EXCEPT ![n] = <<@[1], @[2] + prev[n - 1][2],
                                   @[3] + prev[n - 1][3]>>]

\* the rows sorted, without the cumulative pass
HistoryPerDay(od) ==
    Sorted(HistoryRows(HistoryMapUpTo(od.passengers, Len(od.passengers))))

History(od) ==
    LET history_list ==
            Sorted(HistoryRows(HistoryMapUpTo(od.passengers, Len(od.passengers))))
    IN  CumulateUpTo(history_list, Len(history_list))

----------------------------------------------------------------------------
(* Service.load_passenger_manifest *)

\* the first OD with the passenger's origin, whatever its destination
FindOdByOrigin(os, passenger) ==
    IF \E k \in 1..Len(os) : os[k].origin = passenger.origin
    THEN CHOOSE k \in 1..Len(os) :
            /\ os[k].origin = passenger.origin
            /\ \A j \in 1..(k - 1) : os[j].origin # passenger.origin
    ELSE 0

\* next(od for od in self.ods if ...): the position of the first OD with
\* the passenger's origin and destination, 0 when there is none
FindOd(os, passenger) ==
    IF \E k \in 1..Len(os) : os[k].origin = passenger.origin
                             /\ os[k].destination = passenger.destination
    THEN CHOOSE k \in 1..Len(os) :
            /\ os[k].origin = passenger.origin
            /\ os[k].destination = passenger.destination
            /\ \A j \in 1..(k - 1) :
                  ~(os[j].origin = passenger.origin
                    /\ os[j].destination = passenger.destination)
    ELSE 0

\* the for loop from entry i on.  next() without a default raises
\* StopIteration on an exhausted generator; `at` is the entry that raised.
RECURSIVE LoadManifestFrom(_, _, _)
LoadManifestFrom(os, passengers, i) ==
    IF i > Len(passengers) THEN [exc |-> "none", ods |-> os, at |-> 0]
    ELSE LET k == FindOd(os, passengers[i])
         IN  IF k = 0 THEN [exc |-> "StopIteration", ods |-> os, at |-> i]
             ELSE LoadManifestFrom(
                      [os EXCEPT ![k].passengers = Append(@, passengers[i])],
                      passengers, i + 1)

\* all or nothing: a call that raises leaves the ods as they were
LoadManifestAtomic(os, passengers) ==
    LET r == LoadManifestFrom(os, passengers, 1)
    IN  IF r.exc = "none" THEN r ELSE [r EXCEPT !.ods = os]

LoadManifest(os, passengers) == LoadManifestFrom(os, passengers, 1)

----------------------------------------------------------------------------
(* max_path_finder, path_finder.  Cells are <<row, col>>, 0-based as in    *)
(* the source; a table t holds cell (row, col) at t[row + 1][col + 1].     *)

\* min in the place of max
MaxAsMin(a, b) == IF a <= b THEN a ELSE b

\* max(a, b)
Max(a, b) == IF a >= b THEN a ELSE b

NumRows(t) == Len(t)

NumCols(t) == Len(t[1])

At(t, row, col) == t[row + 1][col + 1]

\* the table after the first k cells of the row-major double loop; cell
\* (0, 0) is set before the loop and skipped in it
RECURSIVE DpUpTo(_, _)
DpUpTo(g, k) ==
    IF k <= 1
    THEN [r \in 1..NumRows(g) |->
            [c \in 1..NumCols(g) |-> IF r = 1 /\ c = 1 THEN g[1][1] ELSE 0]]
    ELSE LET dp == DpUpTo(g, k - 1)
             row == (k - 1) \div NumCols(g)
             col == (k - 1) % NumCols(g)
             ans == IF row > 0 /\ col > 0
                    THEN Max(At(dp, row - 1, col), At(dp, row, col - 1))
                    ELSE IF row > 0 THEN At(dp, row - 1, col)
                    ELSE At(dp, row, col - 1)
         IN  [dp EXCEPT ![row + 1][col + 1] = At(g, row, col) + ans]

DpTable(g) == DpUpTo(g, NumRows(g) * NumCols(g))

\* the backward walk with a strict comparison: a tie steps left
RECURSIVE PathFromStrict(_, _, _)
PathFromStrict(dp, row, col) ==
    IF ~(row >= 0 /\ col >= 0) THEN <<>>
    ELSE IF row > 0 /\ (col = 0 \/ At(dp, row - 1, col) > At(dp, row, col - 1))
    THEN <<(<<row, col>>)>> \o PathFromStrict(dp, row - 1, col)
    ELSE <<(<<row, col>>)>> \o PathFromStrict(dp, row, col - 1)

\* the while loop of path_finder from (row, col): the cells appended, in
\* the order they are appended
RECURSIVE PathFrom(_, _, _)
PathFrom(dp, row, col) ==
    IF ~(row >= 0 /\ col >= 0) THEN <<>>
    ELSE IF row > 0 /\ (col = 0 \/ At(dp, row - 1, col) >= At(dp, row, col - 1))
    THEN <<(<<row, col>>)>> \o PathFrom(dp, row - 1, col)
    ELSE <<(<<row, col>>)>> \o PathFrom(dp, row, col - 1)

Reverse(s) == [i \in 1..Len(s) |-> s[Len(s) + 1 - i]]

PathFinder(dp) == Reverse(PathFrom(dp, NumRows(dp) - 1, NumCols(dp) - 1))

MaxPathFinderResult(g) ==
    LET dp == DpTable(g)
    IN  <<At(dp, NumRows(g) - 1, NumCols(g) - 1), PathFinder(dp)>>

----------------------------------------------------------------------------
(* Inputs *)

\* station lists without repetition, of 2 to NumStations stations
Itineraries ==
    {s \in UNION {[1..k -> Stations] : k \in 2..NumStations} : Distinct(s)}

Orders(n) == {f \in [1..n -> 1..n] : \A i \in 1..n : \E j \in 1..n : f[j] = i}

SaleDays == (0 - MaxDaysBefore)..(0 - 1)

Prices == 0..MaxPrice

\* How a manifest is put together: entry i is <<"new", o, d>>, a Passenger
\* constructed for it from o to another station d, or <<"old", id, id>>, an
\* object constructed before
EntryChoices ==
    UNION {{<<"new", o, d>> : d \in Stations \ {o}} : o \in Stations}
        \cup {<<"old", id, id>> : id \in 1..MaxPassengers}

NewBefore(c, i) == Cardinality({j \in 1..(i - 1) : c[j][1] = "new"})

ValidChoices(objs, c) ==
    \A i \in 1..Len(c) :
        c[i][1] = "old" => c[i][2] <= Cardinality(objs) + NewBefore(c, i)

\* the Passenger objects of the manifest; objects are numbered as they are
\* constructed, so an id below the count of objs names one of them
RECURSIVE BuildManifest(_, _, _, _, _)
BuildManifest(objs, c, day, price, i) ==
    IF i > Len(c) THEN <<>>
    ELSE LET p == IF c[i][1] = "new"
                  THEN Passenger(Cardinality(objs) + 1, c[i][2], c[i][3], day, price)
                  ELSE CHOOSE q \in objs : q.id = c[i][2]
         IN  <<p>> \o BuildManifest(objs \cup {p}, c, day, price, i + 1)

\* the rectangular matrices of at most MaxCells cells
Shapes == {mn \in (1..MaxCells) \X (1..MaxCells) : mn[1] * mn[2] <= MaxCells}

Grids == UNION {[1..mn[1] -> [1..mn[2] -> CellValues]] : mn \in Shapes}

----------------------------------------------------------------------------
(* State machine *)

\* Service("7601", ...): no legs, no ods
InitService ==
    /\ pc = "new"
    /\ legs = <<>>
    /\ ods = <<>>
    /\ created = {}
    /\ accepted = <<>>
    /\ call = [op |-> "Service", arg |-> <<>>]
    /\ ret = <<>>
    /\ err = "none"
    /\ route = <<>>
    /\ grid = <<>>

\* a matrix about to be handed to max_path_finder
InitPath ==
    /\ pc = "matrix"
    /\ legs = <<>>
    /\ ods = <<>>
    /\ created = {}
    /\ accepted = <<>>
    /\ call = [op |-> "matrix", arg |-> <<>>]
    /\ ret = <<>>
    /\ err = "none"
    /\ route = <<>>
    /\ grid \in Grids

\* how a call ends: returned, raised, or never returned
After(exc) ==
    IF exc = "none" THEN "ready"
    ELSE IF exc = "NonTermination" THEN "hung" ELSE "raised"

\* service.load_itinerary(itinerary) on the new Service
LoadItinerary(itinerary) ==
    /\ pc = "new"
    /\ legs' = legs \o LoadLegs(itinerary)
    /\ ods' = ods \o LoadOds(itinerary)
    /\ route' = itinerary
    /\ pc' = "ready"
    /\ call' = [op |-> "load_itinerary", arg |-> itinerary]
    /\ ret' = <<>>
    /\ err' = "none"
    /\ UNCHANGED <<created, accepted, grid>>

\* service.legs = [...]; service.ods = [...]: the legs of the chain listed
\* in the order `order`, the ods as in the source's example
AssignLegsAndOds(itinerary, order) ==
    /\ pc = "new"
    /\ legs' = [i \in 1..(Len(itinerary) - 1) |-> LoadLegs(itinerary)[order[i]]]
    /\ ods' = LoadOds(itinerary)
    /\ route' = itinerary
    /\ pc' = "ready"
    /\ call' = [op |-> "assign", arg |-> itinerary]
    /\ ret' = <<>>
    /\ err' = "none"
    /\ UNCHANGED <<created, accepted, grid>>

\* service.itinerary
GetItinerary ==
    /\ pc = "ready"
    /\ LET r == CalculateItinerary(legs)
       IN  /\ ret' = r.val
           /\ err' = r.exc
           /\ pc' = After(r.exc)
    /\ call' = [op |-> "itinerary", arg |-> <<>>]
    /\ UNCHANGED <<legs, ods, created, accepted, route, grid>>

\* service.ods[k].legs (k 1-based)
GetOdLegs(k) ==
    /\ pc = "ready"
    /\ k \in 1..Len(ods)
    /\ LET r == OdLegs(legs, ods[k])
       IN  /\ ret' = r.val
           /\ err' = r.exc
           /\ pc' = After(r.exc)
    /\ call' = [op |-> "od.legs", arg |-> k]
    /\ UNCHANGED <<legs, ods, created, accepted, route, grid>>

\* service.legs[i].passengers (i 1-based)
GetLegPassengers(i) ==
    /\ pc = "ready"
    /\ i \in 1..Len(legs)
    /\ LET r == LegPassengers(legs, ods, legs[i])
       IN  /\ ret' \in ListsOfSet(r.val)
           /\ err' = r.exc
           /\ pc' = After(r.exc)
    /\ call' = [op |-> "leg.passengers", arg |-> i]
    /\ UNCHANGED <<legs, ods, created, accepted, route, grid>>

\* service.ods[k].history() (k 1-based)
GetHistory(k) ==
    /\ pc = "ready"
    /\ k \in 1..Len(ods)
    /\ ret' = History(ods[k])
    /\ err' = "none"
    /\ call' = [op |-> "od.history", arg |-> k]
    /\ UNCHANGED <<pc, legs, ods, created, accepted, route, grid>>

\* service.load_passenger_manifest(passengers)
LoadPassengerManifest(passengers) ==
    /\ pc = "ready"
    /\ LET r == LoadManifest(ods, passengers)
       IN  /\ ods' = r.ods
           /\ err' = r.exc
           /\ pc' = After(r.exc)
           /\ ret' = <<>>
           /\ accepted' = IF r.exc = "none" THEN accepted \o passengers
                          ELSE accepted
           /\ call' = [op |-> "load_passenger_manifest", arg |-> passengers,
                       at |-> r.at, before |-> ods]
    /\ created' = created \cup Range(passengers)
    /\ UNCHANGED <<legs, route, grid>>

\* max_path_finder(grid)
MaxPathFinder ==
    /\ pc = "matrix"
    /\ ret' = MaxPathFinderResult(grid)
    /\ err' = "none"
    /\ pc' = "done"
    /\ call' = [op |-> "max_path_finder", arg |-> grid]
    /\ UNCHANGED <<legs, ods, created, accepted, route, grid>>

----------------------------------------------------------------------------
(* Specifications *)

\* building a service and reading its itinerary and its ods' legs
NextItinerary ==
    \/ \E itinerary \in Itineraries : LoadItinerary(itinerary)
    \/ \E itinerary \in Itineraries :
          \E order \in Orders(Len(itinerary) - 1) :
              AssignLegsAndOds(itinerary, order)
    \/ GetItinerary
    \/ \E k \in 1..Len(ods) : GetOdLegs(k)

SpecItinerary == InitService /\ [][NextItinerary]_vars

\* loading manifests into a loaded service and reading the legs' passengers
NextManifest ==
    \/ \E itinerary \in Itineraries :
          Len(itinerary) <= MaxStops /\ LoadItinerary(itinerary)
    \/ \E n \in 0..MaxManifest : \E c \in [1..n -> EntryChoices] :
          /\ pc = "ready"
          /\ Len(accepted) + n <= MaxPassengers
          /\ ValidChoices(created, c)
          /\ LoadPassengerManifest(BuildManifest(created, c, 0 - 1, 1, 1))
    \/ \E i \in 1..Len(legs) : GetLegPassengers(i)

SpecManifest == InitService /\ [][NextManifest]_vars

\* bookings of various days and prices, one at a time, and the history
NextHistory ==
    \/ LoadItinerary(<<1, 2>>)
    \/ \E day \in SaleDays, price \in Prices :
          /\ pc = "ready"
          /\ Len(accepted) < MaxHistory
          /\ LoadPassengerManifest(
                 <<Passenger(Cardinality(created) + 1, route[1], route[2], day, price)>>)
    \/ \E k \in 1..Len(ods) : GetHistory(k)

SpecHistory == InitService /\ [][NextHistory]_vars

\* one matrix, one call
NextPath == MaxPathFinder

SpecPath == InitPath /\ [][NextPath]_vars

Spec == SpecItinerary

----------------------------------------------------------------------------
(* Vocabulary of the properties *)

\* the position of the OD (s[i], s[j]), i < j, among the pairs of positions
\* of a k-station list taken in lexicographic order
PairPosition(i, j, k) == (i - 1) * k - ((i * (i - 1)) \div 2) + (j - i)

\* od is the OD of the passenger's origin and destination
Matches(od, p) == od.origin = p.origin /\ od.destination = p.destination

\* the entries of s bought for od, in the order of s
EntriesFor(od, s) ==
    LET Test(p) == Matches(od, p) IN SelectSeq(s, Test)

\* the trip from origin to destination crosses leg i of the route
Crosses(origin, destination, i) ==
    /\ IndexOf(route, origin) # 0
    /\ IndexOf(route, origin) <= i
    /\ i < IndexOf(route, destination)

RECURSIVE SumOver(_, _)
SumOver(S, f) ==
    IF S = {} THEN 0
    ELSE LET x == CHOOSE y \in S : TRUE IN f[x] + SumOver(S \ {x}, f)

\* the right/down paths through m rows and n columns: step d goes down for
\* d in downs, right otherwise
PathOf(downs, m, n) ==
    [t \in 1..(m + n - 1) |->
        LET row == Cardinality({d \in downs : d < t})
        IN  <<row, (t - 1) - row>>]

MonotonePaths(m, n) ==
    {PathOf(downs, m, n) :
        downs \in {D \in SUBSET (1..(m + n - 2)) : Cardinality(D) = m - 1}}

PathSum(g, q) == SumOver(1..Len(q), [t \in 1..Len(q) |-> At(g, q[t][1], q[t][2])])

\* the largest sum of a right/down path from (0, 0) to (row, col)
BestTo(g, row, col) ==
    LET sums == {PathSum(g, q) : q \in MonotonePaths(row + 1, col + 1)}
    IN  CHOOSE v \in sums : \A w \in sums : w <= v

MaxSumPaths(g) ==
    {q \in MonotonePaths(NumRows(g), NumCols(g)) :
        PathSum(g, q) = BestTo(g, NumRows(g) - 1, NumCols(g) - 1)}

\* the exception classes that are LookupError or derive from it
LookupErrors == {"LookupError", "KeyError", "IndexError"}

----------------------------------------------------------------------------
(* Properties *)

\* C1: load_itinerary on a new Service, given k >= 2 distinct stations
\* s_0..s_{k-1}, leaves exactly k-1 legs, leg i from s_i to s_{i+1}, and
\* exactly C(k,2) ODs without passengers, the OD (s_i, s_j), i < j, at its
\* position in the lexicographic order of (i, j).
C1_LoadItinerary ==
    call.op = "load_itinerary" =>
        LET s == call.arg
            k == Len(s)
        IN  /\ Len(legs) = k - 1
            /\ \A i \in 1..(k - 1) : legs[i] = Leg(s[i], s[i + 1])
            /\ 2 * Len(ods) = k * (k - 1)
            /\ \A i \in 1..k : \A j \in (i + 1)..k :
                  ods[PairPosition(i, j, k)] = OD(s[i], s[j])

C1_Witness ==
    /\ call.op = "load_itinerary"
    /\ Len(call.arg) = 4
    /\ Len(ods) = 6

\* C2: whatever the order in which the legs of a simple chain are stored,
\* Service.itinerary returns, without raising or looping, the stations in
\* chain order; so it does after load_itinerary.
C2_ItineraryRecovered ==
    call.op = "itinerary" => (pc = "ready" /\ err = "none" /\ ret = route)

C2_Witness ==
    /\ call.op = "itinerary"
    /\ ret = route
    /\ Len(route) = 4
    /\ legs[1].origin # route[1]
    /\ legs[3].destination # route[4]

\* C3: while every load_passenger_manifest call has returned, every OD
\* holds exactly the supplied entries bought for it, in the order they were
\* supplied, and every supplied entry is bought for exactly one OD.
C3_ManifestAllocated ==
    (pc = "ready" /\ route # <<>>) =>
        /\ \A k \in 1..Len(ods) : ods[k].passengers = EntriesFor(ods[k], accepted)
        /\ \A i \in 1..Len(accepted) :
              Cardinality({k \in 1..Len(ods) : Matches(ods[k], accepted[i])}) = 1

C3_Witness ==
    /\ pc = "ready"
    /\ call.op = "load_passenger_manifest"
    /\ Len(accepted) = 3
    /\ Len(call.arg) = 2
    /\ \E k \in 1..Len(ods) :
          /\ Len(ods[k].passengers) = 2
          /\ ods[k].passengers[1] = accepted[1]
          /\ ods[k].passengers[2] = accepted[3]

\* C4: a load_passenger_manifest call with an entry that no OD matches
\* raises a LookupError.
C4_RaisesLookupError ==
    (/\ call.op = "load_passenger_manifest"
     /\ \E i \in 1..Len(call.arg) :
           \A k \in 1..Len(call.before) : ~Matches(call.before[k], call.arg[i]))
        => err \in LookupErrors

\* C10: a load_passenger_manifest call that raises at its first unmatched
\* entry p_i leaves p_0..p_{i-1} appended to their ODs, after what the ODs
\* held before the call, and appends nothing else.
C10_PartialLoadKept ==
    (call.op = "load_passenger_manifest" /\ err # "none") =>
        LET unmatched == {i \in 1..Len(call.arg) :
                            \A k \in 1..Len(call.before) :
                                ~Matches(call.before[k], call.arg[i])}
            first == CHOOSE i \in unmatched : \A j \in unmatched : i <= j
            done == SubSeq(call.arg, 1, first - 1)
        IN  /\ unmatched # {}
            /\ Len(ods) = Len(call.before)
            /\ \A k \in 1..Len(ods) :
                  /\ Matches(ods[k], call.before[k])
                  /\ ods[k].passengers =
                        call.before[k].passengers \o EntriesFor(ods[k], done)

C10_Witness ==
    /\ call.op = "load_passenger_manifest"
    /\ err # "none"
    /\ call.at = 2
    /\ \E k \in 1..Len(ods) :
          /\ Len(call.before[k].passengers) = 1
          /\ Len(ods[k].passengers) = 2
          /\ ods[k].passengers[2] = call.arg[1]

\* C6: on a service built by load_itinerary, Leg.passengers of leg i holds,
\* each once, exactly the passengers of the ODs (s_a, s_b) with a <= i < b:
\* every loaded passenger whose trip crosses leg i, and no other.
C6_LegPassengers ==
    call.op = "leg.passengers" =>
        /\ err = "none"
        /\ Distinct(ret)
        /\ Range(ret) =
              UNION {Range(ods[k].passengers) :
                       k \in {j \in 1..Len(ods) :
                                Crosses(ods[j].origin, ods[j].destination, call.arg)}}
        /\ Range(ret) =
              {p \in Range(accepted) : Crosses(p.origin, p.destination, call.arg)}

C6_Witness ==
    /\ call.op = "leg.passengers"
    /\ Len(route) = 3
    /\ call.arg = 2
    /\ Len(ret) = 2
    /\ ret[1].origin # ret[2].origin
    /\ \E i, j \in 1..Len(accepted) : i # j /\ accepted[i] = accepted[j]
                                      /\ accepted[i] \in Range(ret)

\* C5: OD.history() returns one row per sale day present among the OD's
\* passengers, in strictly ascending day order, the row of day d being
\* (d, the number of the OD's passengers sold up to d, the sum of their
\* prices); so the bookings and revenue columns never decrease and the last
\* row holds the totals.
C5_History ==
    call.op = "od.history" =>
        LET ps == ods[call.arg].passengers
            days == {ps[i].sale_day_x : i \in 1..Len(ps)}
            UpTo(d) == {i \in 1..Len(ps) : ps[i].sale_day_x <= d}
            price == [i \in 1..Len(ps) |-> ps[i].price]
        IN  /\ Len(ret) = Cardinality(days)
            /\ \A r \in 1..Len(ret) :
                  /\ ret[r][1] \in days
                  /\ ret[r] = <<ret[r][1], Cardinality(UpTo(ret[r][1])),
                                SumOver(UpTo(ret[r][1]), price)>>
            /\ \A r \in 1..(Len(ret) - 1) :
                  /\ ret[r][1] < ret[r + 1][1]
                  /\ ret[r][2] <= ret[r + 1][2]
                  /\ ret[r][3] <= ret[r + 1][3]
            /\ ps # <<>> =>
                  /\ ret[Len(ret)][2] = Len(ps)
                  /\ ret[Len(ret)][3] = SumOver(1..Len(ps), price)

C5_Witness ==
    /\ call.op = "od.history"
    /\ Len(ods[call.arg].passengers) = 4
    /\ Len(ret) = 3
    /\ ods[call.arg].passengers[1].sale_day_x > ods[call.arg].passengers[2].sale_day_x
    /\ ret[1][3] > ret[1][2]
    /\ ret[3][3] > ret[2][3]

\* C7: max_path_finder returns (v, path): path goes from (0,0) to
\* (M-1,N-1), each step adding 1 to the row or to the column, through
\* M+N-1 distinct cells whose values sum to v, and no right/down path from
\* (0,0) to (M-1,N-1) has a larger sum.
C7_MaxPath ==
    pc = "done" =>
        LET v == ret[1]
            path == ret[2]
            m == NumRows(grid)
            n == NumCols(grid)
        IN  /\ Len(path) = m + n - 1
            /\ path[1] = <<0, 0>>
            /\ path[Len(path)] = <<m - 1, n - 1>>
            /\ \A t \in 1..(Len(path) - 1) :
                  \/ path[t + 1] = <<path[t][1] + 1, path[t][2]>>
                  \/ path[t + 1] = <<path[t][1], path[t][2] + 1>>
            /\ Distinct(path)
            /\ path \in MonotonePaths(m, n)
            /\ PathSum(grid, path) = v
            /\ \A q \in MonotonePaths(m, n) : PathSum(grid, q) <= v

C7_Witness ==
    /\ pc = "done"
    /\ NumRows(grid) = 2
    /\ NumCols(grid) = 3
    /\ ret[2] = <<(<<0, 0>>), (<<0, 1>>), (<<1, 1>>), (<<1, 2>>)>>
    /\ \A q \in MonotonePaths(2, 3) : q # ret[2] => PathSum(grid, q) < ret[1]

\* C8: where the best sums to the cell above and to the cell on the left
\* are equal, the returned path comes from above; and the returned path is
\* the topmost of the maximum-sum paths: at every step its row is at most
\* the row of any maximum-sum path at that step.
C8_TieBreakTopmost ==
    pc = "done" =>
        LET path == ret[2]
        IN  /\ \A t \in 2..Len(path) :
                  (/\ path[t][1] > 0
                   /\ path[t][2] > 0
                   /\ BestTo(grid, path[t][1] - 1, path[t][2])
                         = BestTo(grid, path[t][1], path[t][2] - 1))
                      => path[t - 1] = <<path[t][1] - 1, path[t][2]>>
            /\ \A q \in MaxSumPaths(grid) :
                  \A t \in 1..Len(path) : path[t][1] <= q[t][1]

C8_Witness ==
    /\ pc = "done"
    /\ Cardinality(MaxSumPaths(grid)) >= 2
    /\ \E t \in 2..Len(ret[2]) :
          /\ ret[2][t][1] > 0
          /\ ret[2][t][2] > 0
          /\ BestTo(grid, ret[2][t][1] - 1, ret[2][t][2])
                = BestTo(grid, ret[2][t][1], ret[2][t][2] - 1)
          /\ ret[2][t - 1] = <<ret[2][t][1] - 1, ret[2][t][2]>>

\* C9: for legs that form one simple chain, stored in any order, OD.legs
\* is the sequence of the legs the trip crosses, in travel order, from the
\* leg leaving the origin to the leg arriving at the destination.
C9_OdLegsCrossed ==
    call.op = "od.legs" =>
        LET a == IndexOf(route, ods[call.arg].origin)
            b == IndexOf(route, ods[call.arg].destination)
        IN  /\ err = "none"
            /\ ret = [i \in 1..(b - a) |-> Leg(route[a + i - 1], route[a + i])]

====
